---- MODULE Spec2Model ----
(***************************************************************************)
(* Kanban board of repair cards (backend/app): card status transitions,    *)
(* WIP limits, StatusHistory, stage timestamps, soft delete, the column    *)
(* configuration and the in-process TTL cache of the aggregate endpoints.  *)
(*                                                                         *)
(* Optional (nullable) columns are modelled as sets: {} is NULL/None and   *)
(* {v} is the value v.  Time is a logical clock `now` counted in seconds.  *)
(***************************************************************************)
EXTENDS Integers, Sequences, FiniteSets, TLC

\* ---------------------------------------------------------------- bounds
MaxCards == 2
MaxTime == 2
MaxHist == 3
MaxHours == 2
StampCards == 1
MaxMedia == 3
MAX_MEDIA_PER_CARD == 10
ConcCards == 3

\* ------------------------------------------------------- program constants
DEFAULT_TTL == 300
METRICAS_TTL == 120
\* timedelta(hours=col.sla_hours) on the clock counted in seconds.
HourSeconds == 3600
STATS_KEY == "estadisticas"
\* f"{METRICAS_CACHE_KEY}_{dias}" of get_kanban_metrics for the default dias = 30.
cache_key == "metricas_kanban_30"

DefaultStatuses == {"ingresado", "diagnosticada", "para_entregar", "listos"}

\* A column key that is no default key: configured only if it is created.
ExtraKey == "archivado"

CardIds == 1..MaxCards
CacheKeys == {STATS_KEY, cache_key}

VARIABLES
    columns,        \* kanban_columns: set of [key, position, wip_limit, sla_hours]
    cards,          \* repair_cards: id -> row (function on the existing ids)
    nextId,         \* the autoincrement sequence of repair_cards.id
    history,        \* status_history rows in insertion order
    notifications,  \* notifications rows in insertion order
    cache,          \* core.cache._cache: key -> {} or {[value, expires]}
    now,            \* wall clock, seconds
    resp,           \* the response of the last request
    sess,           \* per server process: the request being handled
    sio,            \* socket server: what the last request broadcast
    env,            \* outside the program: socket server up, client token, AI service
    media,          \* repair_card_media rows in insertion order (id = index)
    image_url,      \* repair_cards.image_url: id -> url, no entry for NULL
    users           \* users: id -> [role, is_active]

vars == <<columns, cards, nextId, history, notifications, cache, now, resp, sess,
          sio, env, media, image_url, users>>

Procs == {1, 2}

\* ---------------------------------------------------------------- helpers
SetMax(S) == IF S = {} THEN 0 ELSE CHOOSE m \in S : \A x \in S : x <= m

Live(cds) == {i \in DOMAIN cds : cds[i].deleted_at = {}}

InColumn(cds, st) == {i \in Live(cds) : cds[i].status = st}

NoArgs == [include_deleted |-> FALSE, estado |-> {}]

\* core/errors.py default_code_for_status.
default_code_for_status(status_code) ==
    CASE status_code = 400 -> "bad_request"
      [] status_code = 401 -> "unauthorized"
      [] status_code = 403 -> "forbidden"
      [] status_code = 404 -> "not_found"
      [] status_code = 409 -> "conflict"
      [] status_code = 422 -> "validation_error"
      [] status_code = 429 -> "rate_limited"
      [] status_code = 500 -> "internal_error"
      [] status_code = 503 -> "service_unavailable"
      [] OTHER -> "error"

\* The JSON body of a response as far as errors go: the keys of the object
\* and the value of its "code" key ("" when it has none).
NoContent == [keys |-> {}, code |-> ""]

\* main.py handle_http_exception for an HTTPException whose detail is a string
\* (every HTTPException the routes raise).
handle_http_exception(status_code) ==
    [keys |-> {"code", "message", "details", "request_id"},
     code |-> default_code_for_status(status_code)]

NoResp ==
    [op |-> "none", code |-> 0, ids |-> {}, args |-> NoArgs, body |-> 0,
     content |-> NoContent, queries |-> 0]

\* The answer of a handler: a return value (code below 400) or a raised
\* HTTPException, which handle_http_exception turns into the response.
Response(op, code, ids) ==
    [op |-> op, code |-> code, ids |-> ids, args |-> NoArgs, body |-> 0,
     content |-> IF code >= 400 THEN handle_http_exception(code) ELSE NoContent,
     queries |-> 0]

RECURSIVE SortedSeq(_)
SortedSeq(S) ==
    IF S = {} THEN <<>>
    ELSE LET m == CHOOSE x \in S : \A y \in S : x <= y
         IN <<m>> \o SortedSeq(S \ {m})

NoCard ==
    [owner_name |-> <<>>, problem |-> <<>>, priority |-> "", tags |-> {},
     status |-> "", position |-> 0, assigned_to |-> {}, deleted_at |-> {},
     ingresado_date |-> {}, diagnosticada_date |-> {},
     para_entregar_date |-> {}, entregados_date |-> {}]

\* The users table after the startup seed and one registration: the default
\* admin (id 1) and a technician (id 2; role default "tecnico", is_active
\* default True).
DefaultUsers ==
    (1 :> [role |-> "admin", is_active |-> TRUE])
    @@ (2 :> [role |-> "tecnico", is_active |-> TRUE])

\* A repair_card_media row; `deleted` is deleted_at IS NOT NULL.  The url the
\* storage service returns is unique per upload: the media id under "url".
MediaRow(id, tarjeta_id, position, is_cover) ==
    [tarjeta_id |-> tarjeta_id, url |-> <<"url", id>>, position |-> position,
     is_cover |-> is_cover, deleted |-> FALSE]

\* The slot of a media row that no longer exists.
NoMedia == [tarjeta_id |-> 0, url |-> <<>>, position |-> 0, is_cover |-> FALSE,
            deleted |-> TRUE]

IdleSess == [pc |-> "idle", id |-> 0, upd |-> [columna |-> ""],
             loaded |-> NoCard, t |-> NoCard, hist |-> <<>>, notifs |-> <<>>,
             result |-> 0]

\* ----------------------------------------------------------------- events
NoSio == [events |-> <<>>, last_version |-> 0]

NoEnv == [sio_up |-> TRUE, token |-> {}, gemini |-> FALSE]

\* The payload of sio.emit(name, {"event_version": 1, "data": ...}); `data` is
\* the cards of the event, id -> row (empty for tarjeta_eliminada, whose data
\* is the id alone).
Envelope_versioned_by_name(name, ids, data) ==
    [name |-> name, event_version |-> IF name = "tarjeta_creada" THEN 2 ELSE 1,
     ids |-> ids, data |-> data]

Envelope(name, ids, data) ==
    [name |-> name, event_version |-> 1, ids |-> ids, data |-> data]

\* try: await sio.emit(...) except Exception: pass, for the events `evs` of one
\* request: broadcast while the socket server is up, dropped otherwise.
\* emit sending every event twice.
emit_twice(evs) ==
    IF env.sio_up /\ evs # <<>>
       THEN [events |-> evs \o evs, last_version |-> evs[Len(evs)].event_version]
       ELSE [sio EXCEPT !.events = <<>>]

emit(evs) ==
    IF env.sio_up /\ evs # <<>>
       THEN [events |-> evs, last_version |-> evs[Len(evs)].event_version]
       ELSE [sio EXCEPT !.events = <<>>]

\* A request that ends without reaching an emit.
no_emit == [sio EXCEPT !.events = <<>>]

\* ------------------------------------------------------------------ cache
\* core/cache.py get_cached: the value while now < expires, else None and the
\* entry is removed.  Returns the value as a set ({} is None).
get_cached_value_until_expiry(c, key, time) ==
    {e.value : e \in {x \in c[key] : time <= x.expires}}

get_cached_value(c, key, time) ==
    {e.value : e \in {x \in c[key] : time < x.expires}}

get_cached_store(c, key, time) ==
    [c EXCEPT ![key] = {x \in c[key] : time < x.expires}]

set_cached(c, key, value, ttl, time) ==
    [c EXCEPT ![key] = {[value |-> value, expires |-> time + ttl]}]

invalidate_stats(c) == [c EXCEPT ![STATS_KEY] = {}]

\* ---------------------------------------------------------------- columns
\* _get_valid_statuses letting every key through.
get_valid_statuses_unchecked(cols) == DefaultStatuses \cup {ExtraKey}

get_valid_statuses(cols) ==
    IF cols # {} THEN {c.key : c \in cols} ELSE DefaultStatuses

\* wip_limit_reached with the comparison off by one (> for >=).
wip_limit_off_by_one(cols, cds, id, nuevo) ==
    \E col \in cols :
        /\ col.key = nuevo
        /\ \E lim \in col.wip_limit :
              /\ lim # 0
              /\ Cardinality(InColumn(cds, nuevo) \ {id}) > lim

\* The WIP check of update_tarjeta and batch_update_positions: the column row
\* exists, its wip_limit is truthy, and the non-deleted cards of the column
\* other than `id` already number wip_limit or more.
wip_limit_reached(cols, cds, id, nuevo) ==
    \E col \in cols :
        /\ col.key = nuevo
        /\ \E lim \in col.wip_limit :
              /\ lim # 0
              /\ Cardinality(InColumn(cds, nuevo) \ {id}) >= lim

\* ------------------------------------------------------------------ cards
\* stamp_stage without its "not yet set" guards: every entry stamps again.
stamp_stage_overwrite(t, nuevo, time) ==
    IF nuevo = "diagnosticada" THEN [t EXCEPT !.diagnosticada_date = {time}]
    ELSE IF nuevo = "para_entregar" THEN [t EXCEPT !.para_entregar_date = {time}]
    ELSE IF nuevo = "listos" THEN [t EXCEPT !.entregados_date = {time}]
    ELSE t

stamp_stage(t, nuevo, time) ==
    IF nuevo = "diagnosticada" /\ t.diagnosticada_date = {}
        THEN [t EXCEPT !.diagnosticada_date = {time}]
    ELSE IF nuevo = "para_entregar" /\ t.para_entregar_date = {}
        THEN [t EXCEPT !.para_entregar_date = {time}]
    ELSE IF nuevo = "listos" /\ t.entregados_date = {}
        THEN [t EXCEPT !.entregados_date = {time}]
    ELSE t

HistoryRow(id, old, new, time) ==
    [tarjeta_id |-> id, old_status |-> old, new_status |-> new, changed_at |-> time]

Notif(type, user, id) == [type |-> type, user_id |-> user, tarjeta_id |-> id]

\* notificar_cambio_estado without the notification for "para_entregar".
notificar_cambio_estado_listos_only(id, t, old_status, new_status) ==
    (IF t.assigned_to # {} THEN <<Notif("info", t.assigned_to, id)>> ELSE <<>>)
    \o (IF new_status = "listos" THEN <<Notif("success", {}, id)>> ELSE <<>>)

notificar_cambio_estado(id, t, old_status, new_status) ==
    (IF t.assigned_to # {} THEN <<Notif("info", t.assigned_to, id)>> ELSE <<>>)
    \o (IF new_status = "para_entregar" THEN <<Notif("success", {}, id)>> ELSE <<>>)
    \o (IF new_status = "listos" THEN <<Notif("success", {}, id)>> ELSE <<>>)

\* ----------------------------------------------------------- create_tarjeta
\* Text is a sequence of pieces; the piece " " is white space.  Optional text
\* is {} (None) or {text}.
RECURSIVE lstrip(_)
lstrip(s) == IF s # <<>> /\ Head(s) = " " THEN lstrip(Tail(s)) ELSE s

RECURSIVE rstrip(_)
rstrip(s) == IF s # <<>> /\ s[Len(s)] = " " THEN rstrip(SubSeq(s, 1, Len(s) - 1)) ELSE s

\* str.strip()
strip(s) == rstrip(lstrip(s))

\* (x or "")
or_empty(x) == IF x = {} THEN <<>> ELSE CHOOSE v \in x : TRUE

Cliente == <<"Cliente">>
SinDescripcion == <<"Sin descripción">>

\* schemas/tarjeta.py TarjetaCreate: the request body (a record of the keys
\* the client sent) with the defaults of the schema for the absent keys.
TarjetaCreate(body) ==
    [nombre_propietario |-> IF "nombre_propietario" \in DOMAIN body
                               THEN body.nombre_propietario ELSE {Cliente},
     problema |-> IF "problema" \in DOMAIN body THEN body.problema ELSE {SinDescripcion},
     prioridad |-> IF "prioridad" \in DOMAIN body THEN body.prioridad ELSE {"media"},
     asignado_a |-> IF "asignado_a" \in DOMAIN body THEN body.asignado_a ELSE {},
     tags |-> IF "tags" \in DOMAIN body THEN body.tags ELSE {}]

\* NewCard taking the owner name and the problem as the schema delivers them.
NewCard_without_strip(data, pos, time) ==
    [owner_name |-> IF data.nombre_propietario # {}
                       THEN or_empty(data.nombre_propietario) ELSE Cliente,
     problem |-> IF data.problema # {} THEN or_empty(data.problema) ELSE SinDescripcion,
     priority |-> IF data.prioridad # {} THEN CHOOSE v \in data.prioridad : TRUE
                                        ELSE "media",
     tags |-> data.tags,
     status |-> "ingresado",
     position |-> pos,
     assigned_to |-> data.asignado_a,
     deleted_at |-> {},
     ingresado_date |-> {time},
     diagnosticada_date |-> {},
     para_entregar_date |-> {},
     entregados_date |-> {}]

NewCard(data, pos, time) ==
    [owner_name |-> LET nombre == strip(or_empty(data.nombre_propietario))
                    IN IF nombre # <<>> THEN nombre ELSE Cliente,
     problem |-> LET problema == strip(or_empty(data.problema))
                 IN IF problema # <<>> THEN problema ELSE SinDescripcion,
     priority |-> IF data.prioridad # {} THEN CHOOSE v \in data.prioridad : TRUE
                                        ELSE "media",
     tags |-> data.tags,
     status |-> "ingresado",
     position |-> pos,
     assigned_to |-> data.asignado_a,
     deleted_at |-> {},
     ingresado_date |-> {time},
     diagnosticada_date |-> {},
     para_entregar_date |-> {},
     entregados_date |-> {}]

create_tarjeta(data) ==
    /\ LET max_pos == SetMax({cards[i].position : i \in InColumn(cards, "ingresado")})
       IN cards' = (nextId :> NewCard(data, max_pos + 1, now)) @@ cards
    /\ nextId' = nextId + 1
    /\ cache' = invalidate_stats(cache)
    /\ resp' = [Response("create_tarjeta", 201, {nextId}) EXCEPT !.args = data]
    /\ sio' = emit(<<Envelope("tarjeta_creada", {nextId}, nextId :> cards'[nextId])>>)
    /\ UNCHANGED <<columns, history, notifications, now, sess, env, media, image_url,
                   users>>

\* ----------------------------------------------------------- update_tarjeta
\* Lines 474-517: the plain fields of the request, set on the session object.
update_fields(t, upd) ==
    LET t1 == IF "nombre_propietario" \in DOMAIN upd
                 THEN [t EXCEPT !.owner_name = upd.nombre_propietario] ELSE t
        t2 == IF "problema" \in DOMAIN upd
                 THEN [t1 EXCEPT !.problem = upd.problema] ELSE t1
        t3 == IF "prioridad" \in DOMAIN upd
                 THEN [t2 EXCEPT !.priority = upd.prioridad] ELSE t2
        t4 == IF "posicion" \in DOMAIN upd
                 THEN [t3 EXCEPT !.position = upd.posicion] ELSE t3
        t5 == IF "asignado_a" \in DOMAIN upd
                 THEN [t4 EXCEPT !.assigned_to = upd.asignado_a] ELSE t4
    IN IF "tags" \in DOMAIN upd
          THEN [t5 EXCEPT !.tags = upd.tags] ELSE t5

Rejected(t) == [code |-> 400, t |-> t, hist |-> <<>>, notifs |-> <<>>]

\* update_status without the assignment t.status = nuevo of line 561.
update_status_not_assigned(cols, cds, id, t, nuevo, time) ==
    IF nuevo \notin get_valid_statuses(cols) THEN Rejected(t)
    ELSE IF wip_limit_reached(cols, cds, id, nuevo) THEN Rejected(t)
    ELSE LET old_status == t.status
             changed == old_status # nuevo
         IN [code |-> 200,
             t |-> stamp_stage(t, nuevo, time),
             hist |-> IF changed THEN <<HistoryRow(id, old_status, nuevo, time)>> ELSE <<>>,
             notifs |-> IF changed
                          THEN notificar_cambio_estado(id, t, old_status, nuevo)
                          ELSE <<>>]

\* Lines 529-567: the status change of the request, on session object t, with
\* the queries it makes answered from the committed tables cols and cds.
update_status(cols, cds, id, t, nuevo, time) ==
    IF nuevo \notin get_valid_statuses(cols) THEN Rejected(t)
    ELSE IF wip_limit_reached(cols, cds, id, nuevo) THEN Rejected(t)
    ELSE LET old_status == t.status
             changed == old_status # nuevo
         IN [code |-> 200,
             t |-> stamp_stage([t EXCEPT !.status = nuevo], nuevo, time),
             hist |-> IF changed THEN <<HistoryRow(id, old_status, nuevo, time)>> ELSE <<>>,
             notifs |-> IF changed
                          THEN notificar_cambio_estado(id, t, old_status, nuevo)
                          ELSE <<>>]

update_request(cols, cds, id, t, upd, time) ==
    LET t1 == update_fields(t, upd)
    IN IF "columna" \in DOMAIN upd
          THEN update_status(cols, cds, id, t1, upd.columna, time)
          ELSE [code |-> 200, t |-> t1, hist |-> <<>>, notifs |-> <<>>]

\* db.commit() of a session that loaded the row as `loaded` and holds it as
\* `t`: the UPDATE sets the attributes whose value changed in the session.
flush(row, loaded, t) ==
    [f \in DOMAIN row |-> IF t[f] # loaded[f] THEN t[f] ELSE row[f]]

update_tarjeta(id, upd) ==
    /\ UNCHANGED <<columns, nextId, users, media, image_url, now, sess, env>>
    /\ IF id \notin DOMAIN cards
          THEN /\ resp' = Response("update_tarjeta", 404, {})
               /\ UNCHANGED <<cards, history, notifications, cache>>
               /\ sio' = no_emit
          ELSE LET out == update_request(columns, cards, id, cards[id], upd, now)
               IN IF out.code # 200
                     THEN /\ resp' = [Response("update_tarjeta", out.code, {})
                                       EXCEPT !.args = [id |-> id, data |-> upd]]
                          /\ UNCHANGED <<cards, history, notifications, cache>>
                          /\ sio' = no_emit
                     ELSE /\ Len(history) + Len(out.hist) <= MaxHist
                          /\ cards' = [cards EXCEPT ![id] = flush(cards[id], cards[id], out.t)]
                          /\ history' = history \o out.hist
                          /\ notifications' = notifications \o out.notifs
                          /\ cache' = invalidate_stats(cache)
                          /\ resp' = [Response("update_tarjeta", 200, {id})
                                       EXCEPT !.args = [id |-> id, data |-> upd]]
                          /\ sio' = emit(<<Envelope("tarjeta_actualizada", {id},
                                                    id :> cards'[id])>>)

\* --------------------------------- update_tarjeta, statement by statement
\* The same handler run by server process p against the shared database:
\* line 470 loads the row, lines 474-567 work on the loaded object and query
\* the committed tables, lines 569-572 commit what the session changed, read
\* the row back and invalidate the cache.
update_begin(p, id, upd) ==
    /\ sess[p].pc = "idle"
    /\ UNCHANGED <<columns, cards, nextId, users, media, image_url, history, notifications, cache, now, env>>
    /\ IF id \notin DOMAIN cards
          THEN /\ resp' = Response("update_tarjeta", 404, {})
               /\ sio' = no_emit
               /\ UNCHANGED sess
          ELSE /\ sess' = [sess EXCEPT ![p] =
                              [IdleSess EXCEPT !.pc = "loaded", !.id = id, !.upd = upd,
                                               !.loaded = cards[id], !.t = cards[id]]]
               /\ UNCHANGED <<resp, sio>>

update_check(p) ==
    /\ sess[p].pc = "loaded"
    /\ UNCHANGED <<columns, cards, nextId, users, media, image_url, history, notifications, cache, now, env>>
    /\ LET out == update_request(columns, cards, sess[p].id, sess[p].loaded,
                                 sess[p].upd, now)
       IN IF out.code # 200
             THEN /\ resp' = [Response("update_tarjeta", out.code, {})
                               EXCEPT !.args = [id |-> sess[p].id, data |-> sess[p].upd]]
                  /\ sio' = no_emit
                  /\ sess' = [sess EXCEPT ![p] = IdleSess]
             ELSE /\ sess' = [sess EXCEPT ![p].pc = "commit", ![p].t = out.t,
                                          ![p].hist = out.hist, ![p].notifs = out.notifs]
                  /\ UNCHANGED <<resp, sio>>

update_commit(p) ==
    /\ sess[p].pc = "commit"
    /\ Len(history) + Len(sess[p].hist) <= MaxHist
    /\ cards' = [cards EXCEPT ![sess[p].id] =
                    flush(cards[sess[p].id], sess[p].loaded, sess[p].t)]
    /\ history' = history \o sess[p].hist
    /\ notifications' = notifications \o sess[p].notifs
    /\ cache' = invalidate_stats(cache)
    /\ sess' = [sess EXCEPT ![p] = [IdleSess EXCEPT !.pc = "emit", !.id = sess[p].id,
                                                     !.upd = sess[p].upd,
                                                     !.t = cards'[sess[p].id]]]
    /\ UNCHANGED <<columns, nextId, users, media, image_url, now, resp, sio, env>>

\* Lines 574-578: the await of sio.emit with the result read back at line 570,
\* then the response.
update_emit(p) ==
    /\ sess[p].pc = "emit"
    /\ sio' = emit(<<Envelope("tarjeta_actualizada", {sess[p].id},
                              sess[p].id :> sess[p].t)>>)
    /\ resp' = [Response("update_tarjeta", 200, {sess[p].id})
                   EXCEPT !.args = [id |-> sess[p].id, data |-> sess[p].upd]]
    /\ sess' = [sess EXCEPT ![p] = IdleSess]
    /\ UNCHANGED <<columns, cards, nextId, users, media, image_url, history, notifications, cache, now, env>>

\* --------------------------------------------------- batch_update_positions
\* The loop over data.items.  `local` is the session's identity map (the rows
\* as modified so far by this request); the WIP count is a query, answered
\* from the committed table cds because the session does not autoflush.
RECURSIVE batch_positions_loop(_, _, _, _, _, _)
batch_positions_loop(items, local, hist, cols, cds, time) ==
    IF items = <<>> THEN [code |-> 200, local |-> local, hist |-> hist]
    ELSE LET item == Head(items)
         IN IF item.id \notin DOMAIN local
               THEN batch_positions_loop(Tail(items), local, hist, cols, cds, time)
               ELSE LET t == local[item.id]
                        old_status == t.status
                        t1 == [t EXCEPT !.position = item.posicion]
                    IN IF old_status = item.columna
                          THEN batch_positions_loop(Tail(items),
                                   [local EXCEPT ![item.id] = t1], hist, cols, cds, time)
                       ELSE IF wip_limit_reached(cols, cds, item.id, item.columna)
                          THEN [code |-> 400, local |-> local, hist |-> hist]
                       ELSE batch_positions_loop(Tail(items),
                                [local EXCEPT ![item.id] =
                                    stamp_stage([t1 EXCEPT !.status = item.columna],
                                                item.columna, time)],
                                Append(hist, HistoryRow(item.id, old_status, item.columna, time)),
                                cols, cds, time)

\* The ids of the list `changed` of lines 584-616: the items whose card exists.
changed(items, cds) == {items[k].id : k \in DOMAIN items} \cap DOMAIN cds

\* get_db that commits the session's pending changes when it closes it.
get_db_close_commits(cds, local) ==
    [i \in DOMAIN cds |-> flush(cds[i], cds[i], local[i])]

\* get_db after a request that raised: db.close() discards what the session
\* changed and did not commit; the table stays as committed.
get_db_close(cds, local) == cds

batch_update_positions(items) ==
    /\ UNCHANGED <<columns, nextId, users, media, image_url, notifications, now, sess, env>>
    /\ LET out == batch_positions_loop(items, cards, <<>>, columns, cards, now)
       IN IF out.code # 200
             THEN /\ resp' = Response("batch_update_positions", out.code, {})
                  /\ cards' = get_db_close(cards, out.local)
                  /\ UNCHANGED <<history, cache>>
                  /\ sio' = no_emit
             ELSE /\ Len(history) + Len(out.hist) <= MaxHist
                  /\ cards' = [i \in DOMAIN cards |-> flush(cards[i], cards[i], out.local[i])]
                  /\ history' = history \o out.hist
                  /\ cache' = invalidate_stats(cache)
                  /\ resp' = Response("batch_update_positions", 200, {})
                  /\ sio' = emit(<<Envelope("tarjetas_reordenadas", changed(items, cards),
                                            [i \in changed(items, cards) |->
                                                [columna |-> cards'[i].status,
                                                 posicion |-> cards'[i].position]])>>)

\* --------------------------------------------------------- batch_operations
\* One card of the loop, lines 953-973 (actions "move" and "delete").
batch_operation_card(t, action, value, time) ==
    IF action = "move" /\ value # ""
        THEN stamp_stage([t EXCEPT !.status = value], value, time)
    ELSE IF action = "delete"
        THEN [t EXCEPT !.deleted_at = {time}]
    ELSE t

\* batch_operation_history with old_status read after `t.status = value`.
batch_operation_history_after_assign(cds, found, action, value, time) ==
    IF action = "move" /\ value # ""
        THEN [k \in 1..Len(found) |-> HistoryRow(found[k], value, value, time)]
        ELSE <<>>

batch_operation_history(cds, found, action, value, time) ==
    IF action = "move" /\ value # ""
        THEN [k \in 1..Len(found) |->
                 HistoryRow(found[k], cds[found[k]].status, value, time)]
        ELSE <<>>

batch_operations(ids, action, value) ==
    /\ UNCHANGED <<columns, nextId, users, media, image_url, notifications, now, sess, env>>
    /\ LET found == ids \cap DOMAIN cards
           hist == batch_operation_history(cards, SortedSeq(found), action, value, now)
       IN IF ids = {} \/ action = ""
             THEN /\ resp' = Response("batch_operations", 400, {})
                  /\ UNCHANGED <<cards, history, cache>>
                  /\ sio' = no_emit
          ELSE IF found = {}
             THEN /\ resp' = Response("batch_operations", 404, {})
                  /\ UNCHANGED <<cards, history, cache>>
                  /\ sio' = no_emit
          ELSE /\ Len(history) + Len(hist) <= MaxHist
               /\ cards' = [i \in DOMAIN cards |->
                              IF i \in found
                                 THEN flush(cards[i], cards[i],
                                            batch_operation_card(cards[i], action, value, now))
                                 ELSE cards[i]]
               /\ history' = history \o hist
               /\ cache' = invalidate_stats(cache)
               /\ resp' = Response("batch_operations", 200, found)
               /\ sio' = emit([k \in 1..Cardinality(found) |->
                                 Envelope("tarjeta_actualizada", {SortedSeq(found)[k]},
                                          SortedSeq(found)[k] :> cards'[SortedSeq(found)[k]])])

\* ------------------------------------------- delete_tarjeta / restore_tarjeta
delete_tarjeta(id) ==
    /\ UNCHANGED <<columns, nextId, users, media, image_url, history, notifications, now, sess, env>>
    /\ IF id \notin DOMAIN cards
          THEN /\ resp' = Response("delete_tarjeta", 404, {})
               /\ UNCHANGED <<cards, cache>>
               /\ sio' = no_emit
          ELSE /\ cards' = [cards EXCEPT ![id].deleted_at = {now}]
               /\ cache' = invalidate_stats(cache)
               /\ resp' = Response("delete_tarjeta", 204, {id})
               /\ sio' = emit(<<Envelope("tarjeta_eliminada", {id}, <<>>)>>)

restore_tarjeta(id) ==
    /\ UNCHANGED <<columns, nextId, users, media, image_url, history, notifications, now, sess, env>>
    /\ IF id \notin DOMAIN cards
          THEN /\ resp' = Response("restore_tarjeta", 404, {})
               /\ UNCHANGED <<cards, cache>>
               /\ sio' = no_emit
          ELSE /\ cards' = [cards EXCEPT ![id].deleted_at = {}]
               /\ cache' = invalidate_stats(cache)
               /\ resp' = Response("restore_tarjeta", 200, {id})
               /\ sio' = emit(<<Envelope("tarjeta_creada", {id}, id :> cards'[id])>>)

\* GET /trash/list: the cards with deleted_at set.
get_trash ==
    /\ resp' = Response("get_trash", 200, {i \in DOMAIN cards : cards[i].deleted_at # {}})
    /\ sio' = no_emit
    /\ UNCHANGED <<columns, cards, nextId, users, media, image_url, history, notifications, cache, now, sess, env>>

\* ---------------------------------------------------- permanent_delete_tarjeta
\* db.delete(t): the row goes, its status_history rows go with it (ON DELETE
\* CASCADE) and its notifications keep a NULL tarjeta_id (ON DELETE SET NULL,
\* written 0 here: ids start at 1).
\* Its media rows go too; their ids stay used, so the slot keeps NoMedia.
permanent_delete_tarjeta(id) ==
    /\ UNCHANGED <<columns, nextId, users, now, sess, env>>
    /\ IF id \notin DOMAIN cards
          THEN /\ resp' = Response("permanent_delete_tarjeta", 404, {})
               /\ UNCHANGED <<cards, history, notifications, cache, media, image_url>>
               /\ sio' = no_emit
          ELSE /\ cards' = [i \in DOMAIN cards \ {id} |-> cards[i]]
               /\ image_url' = [i \in DOMAIN image_url \ {id} |-> image_url[i]]
               /\ media' = [k \in 1..Len(media) |->
                               IF media[k].tarjeta_id = id THEN NoMedia ELSE media[k]]
               /\ history' = SelectSeq(history, LAMBDA h : h.tarjeta_id # id)
               /\ notifications' =
                     [k \in 1..Len(notifications) |->
                         IF notifications[k].tarjeta_id = id
                            THEN [notifications[k] EXCEPT !.tarjeta_id = 0]
                            ELSE notifications[k]]
               /\ cache' = invalidate_stats(cache)
               /\ resp' = Response("permanent_delete_tarjeta", 204, {id})
               /\ sio' = no_emit

\* -------------------------------------------------------------- get_tarjetas
\* get_tarjetas_query without the soft delete filter of lines 254-255.
get_tarjetas_query_unfiltered(cds, include_deleted, estado) ==
    IF estado # {} THEN {i \in DOMAIN cds : cds[i].status \in estado} ELSE DOMAIN cds

\* The query of get_tarjetas, lines 251-270, without pagination: the soft
\* delete filter and the `estado` filter ({} is no filter).
get_tarjetas_query(cds, include_deleted, estado) ==
    LET q0 == DOMAIN cds
        q1 == IF ~include_deleted THEN {i \in q0 : cds[i].deleted_at = {}} ELSE q0
    IN IF estado # {} THEN {i \in q1 : cds[i].status \in estado} ELSE q1

\* The queries _enrich_batch sends for the cards `items`: none for an empty
\* list (line 121); otherwise the covers (_media_cover_map), the tag links,
\* the tags when a link was found (line 133), two subtask counts and the
\* comment count.
enrich_batch_queries_per_card(cds, items) ==
    IF items = {} THEN 0
    ELSE 1 + (1 + (IF \E i \in items : cds[i].tags # {} THEN 1 ELSE 0) + 2 + 1)
                * Cardinality(items)

enrich_batch_queries(cds, items) ==
    IF items = {} THEN 0
    ELSE 1 + 1 + (IF \E i \in items : cds[i].tags # {} THEN 1 ELSE 0) + 2 + 1

get_tarjetas(include_deleted, estado) ==
    /\ resp' = [op |-> "get_tarjetas", code |-> 200,
                ids |-> get_tarjetas_query(cards, include_deleted, estado),
                args |-> [include_deleted |-> include_deleted, estado |-> estado],
                body |-> 0, content |-> NoContent,
                queries |-> enrich_batch_queries(cards,
                                get_tarjetas_query(cards, include_deleted, estado))]
    /\ sio' = no_emit
    /\ UNCHANGED <<columns, cards, nextId, users, media, image_url, history, notifications, cache, now, sess, env>>

\* -------------------------------------------------------------------- time
Tick ==
    /\ now < MaxTime
    /\ now' = now + 1
    /\ UNCHANGED <<columns, cards, nextId, users, media, image_url, history, notifications, cache, resp, sess,
                   sio, env>>

\* One hour passes.
HourTick ==
    /\ now + HourSeconds <= MaxHours * HourSeconds
    /\ now' = now + HourSeconds
    /\ UNCHANGED <<columns, cards, nextId, users, media, image_url, history, notifications, cache, resp, sess,
                   sio, env>>

\* ----------------------------------------------------------- configuration
\* A kanban_columns row: key, position, wip_limit and sla_hours (both nullable).
Col(key, pos, lim) ==
    [key |-> key, position |-> pos, wip_limit |-> lim, sla_hours |-> {}]

\* The board after get_columnas seeded DEFAULT_COLUMNS and update_kanban_rules
\* put a WIP limit of 1 on "diagnosticada".
LimitedColumns ==
    {Col("ingresado", 0, {}), Col("diagnosticada", 1, {1}),
     Col("para_entregar", 2, {}), Col("listos", 3, {})}

\* ------------------------------------------------ columnas (routes/kanban.py)
DEFAULT_COLUMNS ==
    {Col("ingresado", 0, {}), Col("diagnosticada", 1, {}),
     Col("para_entregar", 2, {}), Col("listos", 3, {})}

ensure_default_columns(cols) == IF cols = {} THEN DEFAULT_COLUMNS ELSE cols

get_columnas ==
    /\ columns' = ensure_default_columns(columns)
    /\ resp' = Response("get_columnas", 200, {})
    /\ sio' = no_emit
    /\ UNCHANGED <<cards, nextId, users, media, image_url, history, notifications, cache, now, sess, env>>

create_columna(data) ==
    /\ UNCHANGED <<cards, nextId, users, media, image_url, history, notifications, cache, now, sess, env>>
    /\ sio' = no_emit
    /\ IF \E c \in columns : c.key = data.key
          THEN /\ resp' = Response("create_columna", 409, {})
               /\ UNCHANGED columns
          ELSE /\ columns' = columns \cup {Col(data.key, data.position, data.wip_limit)}
               /\ resp' = Response("create_columna", 201, {})

\* delete_columna refuses while non-deleted cards have the column's key as
\* their status.  Columns are addressed by key here (the key is unique).
delete_columna(key) ==
    /\ UNCHANGED <<cards, nextId, users, media, image_url, history, notifications, cache, now, sess, env>>
    /\ sio' = no_emit
    /\ IF ~ \E c \in columns : c.key = key
          THEN /\ resp' = Response("delete_columna", 404, {})
               /\ UNCHANGED columns
       ELSE IF Cardinality(InColumn(cards, key)) > 0
          THEN /\ resp' = Response("delete_columna", 400, {})
               /\ UNCHANGED columns
       ELSE /\ columns' = {c \in columns : c.key # key}
            /\ resp' = Response("delete_columna", 204, {})

\* update_columna with a request that sets `position` (exclude_unset leaves the
\* other attributes alone).  Columns are addressed by key, as in delete_columna.
update_columna(key, upd) ==
    /\ UNCHANGED <<cards, nextId, users, media, image_url, history, notifications, cache, now, sess, env>>
    /\ sio' = no_emit
    /\ IF ~ \E c \in columns : c.key = key
          THEN /\ resp' = Response("update_columna", 404, {})
               /\ UNCHANGED columns
          ELSE /\ columns' = {IF c.key = key THEN [c EXCEPT !.position = upd.position]
                                             ELSE c : c \in columns}
               /\ resp' = Response("update_columna", 200, {})

\* ----------------------------------------- get_estadisticas, get_kanban_metrics
\* total_reparaciones of _compute_estadisticas: the non-deleted cards.
compute_estadisticas(cds) == Cardinality(Live(cds))

\* The current point of the CFD of get_kanban_metrics for "ingresado": the
\* non-deleted cards whose status is "ingresado".
compute_kanban_metrics(cds) == Cardinality(InColumn(cds, "ingresado"))

cached_endpoint(op, key, ttl, computed) ==
    LET cached == get_cached_value(cache, key, now)
        c1 == get_cached_store(cache, key, now)
    IN /\ IF cached # {}
             THEN /\ cache' = c1
                  /\ \E v \in cached :
                        resp' = [Response(op, 200, {}) EXCEPT !.body = v]
             ELSE /\ cache' = set_cached(c1, key, computed, ttl, now)
                  /\ resp' = [Response(op, 200, {}) EXCEPT !.body = computed]
       /\ sio' = no_emit
       /\ UNCHANGED <<columns, cards, nextId, users, media, image_url, history, notifications, now, sess, env>>

get_estadisticas ==
    cached_endpoint("get_estadisticas", STATS_KEY, DEFAULT_TTL,
                    compute_estadisticas(cards))

\* The stage timestamp the SLA section reads for a column (date_field_map):
\* a set, empty for NULL and for the columns the map does not have.
date_field(t, key) ==
    CASE key = "ingresado" -> t.ingresado_date
      [] key = "diagnosticada" -> t.diagnosticada_date
      [] key = "para_entregar" -> t.para_entregar_date
      [] OTHER -> {}

\* Section 5 of get_kanban_metrics: for every column with sla_hours that
\* date_field_map knows, the non-deleted cards of the column whose stage
\* timestamp is before now - sla_hours.
sla_violations(cols, cds, time) ==
    {i \in DOMAIN cds :
        \E col \in cols :
           /\ col.sla_hours # {} /\ col.sla_hours # {0}
           /\ col.key \in {"ingresado", "diagnosticada", "para_entregar"}
           /\ cds[i].deleted_at = {}
           /\ cds[i].status = col.key
           /\ \E d \in date_field(cds[i], col.key) :
                 \E h \in col.sla_hours : d < time - h * HourSeconds}

get_kanban_metrics ==
    cached_endpoint("get_kanban_metrics", cache_key, METRICAS_TTL,
                    [cfd |-> compute_kanban_metrics(cards),
                     sla_violations |-> sla_violations(columns, cards, now)])

\* PUT /kanban/rules by the client of env.token ({1} is the token of the
\* default admin): wip_limits and sla_by_column are functions from column
\* keys to numbers, applied to the columns that exist.
update_kanban_rules(data) ==
    /\ UNCHANGED <<cards, nextId, users, media, image_url, history, notifications, cache, now, sess, env>>
    /\ sio' = no_emit
    /\ IF env.token = {}
          THEN /\ resp' = Response("update_kanban_rules", 401, {})
               /\ UNCHANGED columns
          ELSE /\ columns' =
                    {[c EXCEPT
                        !.wip_limit = IF c.key \in DOMAIN data.wip_limits
                                         THEN {data.wip_limits[c.key]} ELSE @,
                        !.sla_hours = IF c.key \in DOMAIN data.sla_by_column
                                         THEN {data.sla_by_column[c.key]} ELSE @]
                     : c \in ensure_default_columns(columns)}
               /\ resp' = Response("update_kanban_rules", 200, {})

EmptyDb ==
    /\ cards = <<>>
    /\ nextId = 1
    /\ media = <<>>
    /\ image_url = <<>>
    /\ users = DefaultUsers
    /\ history = <<>>
    /\ notifications = <<>>
    /\ cache = [k \in CacheKeys |-> {}]
    /\ now = 0
    /\ resp = NoResp
    /\ sess = [p \in Procs |-> IdleSess]
    /\ sio = NoSio
    /\ env = NoEnv

\* A request without a body key: every field takes its default.
CreateInputs == {TarjetaCreate(<<>>)}

\* ------------------------------------------------- Spec: the board, one
\* request at a time, under a fixed column configuration.
BoardTargets == {"ingresado", "diagnosticada", ExtraKey}
Items(T) == {[id |-> i, columna |-> s, posicion |-> 0] : i \in CardIds, s \in T}
ItemLists(T) == {<<a>> : a \in Items(T)} \cup {<<a, b>> : a \in Items(T), b \in Items(T)}

Init ==
    /\ columns \in {{}, LimitedColumns}
    /\ EmptyDb

Next ==
    \/ \E data \in CreateInputs : nextId <= MaxCards /\ create_tarjeta(data)
    \/ \E id \in CardIds, s \in BoardTargets : update_tarjeta(id, [columna |-> s])
    \/ \E items \in ItemLists(BoardTargets) : batch_update_positions(items)
    \/ \E ids \in SUBSET CardIds, value \in BoardTargets : batch_operations(ids, "move", value)
    \/ \E ids \in SUBSET CardIds : batch_operations(ids, "delete", "")
    \/ \E id \in CardIds : delete_tarjeta(id)
    \/ \E id \in CardIds : restore_tarjeta(id)

Spec == Init /\ [][Next]_vars

\* ------------------------------------------------- SpecStamp: one card and
\* the clock, for the stage timestamps.
InitStamp ==
    /\ columns = LimitedColumns
    /\ EmptyDb

NextStamp ==
    \/ \E data \in CreateInputs : nextId <= StampCards /\ create_tarjeta(data)
    \/ \E id \in 1..StampCards, s \in DefaultStatuses : update_tarjeta(id, [columna |-> s])
    \/ \E id \in 1..StampCards, s \in DefaultStatuses :
          batch_update_positions(<<[id |-> id, columna |-> s, posicion |-> 0]>>)
    \/ \E id \in 1..StampCards, s \in DefaultStatuses : batch_operations({id}, "move", s)
    \/ \E id \in 1..StampCards : delete_tarjeta(id)
    \/ \E id \in 1..StampCards : restore_tarjeta(id)
    \/ Tick

SpecStamp == InitStamp /\ [][NextStamp]_vars

\* ------------------------------------------------- SpecList: the listing.
EstadoFilters == {{}, {"ingresado"}, {"diagnosticada"}}

InitList ==
    /\ columns = LimitedColumns
    /\ EmptyDb

NextList ==
    \/ \E data \in CreateInputs : nextId <= MaxCards /\ create_tarjeta(data)
    \/ \E id \in CardIds : update_tarjeta(id, [columna |-> "diagnosticada"])
    \/ \E id \in CardIds : delete_tarjeta(id)
    \/ \E id \in CardIds : restore_tarjeta(id)
    \/ \E d \in BOOLEAN, e \in EstadoFilters : get_tarjetas(d, e)

SpecList == InitList /\ [][NextList]_vars

\* ------------------------------------------------- SpecCache: the mutations
\* and the two cached aggregate endpoints.
InitCache ==
    /\ columns = LimitedColumns
    /\ EmptyDb

NextCache ==
    \/ \E data \in CreateInputs : nextId <= MaxCards /\ create_tarjeta(data)
    \/ \E id \in CardIds : update_tarjeta(id, [columna |-> "listos"])
    \/ \E id \in CardIds :
          batch_update_positions(<<[id |-> id, columna |-> "ingresado", posicion |-> 0]>>)
    \/ \E id \in CardIds : batch_operations({id}, "delete", "")
    \/ \E id \in CardIds : delete_tarjeta(id)
    \/ \E id \in CardIds : restore_tarjeta(id)
    \/ get_estadisticas
    \/ get_kanban_metrics

SpecCache == InitCache /\ [][NextCache]_vars

\* ------------------------------------------------- SpecCols: the column
\* configuration changing under the cards.
PositionInputs == {0, 5}
ColumnInputs == {[key |-> ExtraKey, position |-> 0, wip_limit |-> {}]}

InitCols ==
    /\ columns = {}
    /\ EmptyDb

NextCols ==
    \/ get_columnas
    \/ \E data \in ColumnInputs : create_columna(data)
    \/ \E key \in {"ingresado", ExtraKey} : delete_columna(key)
    \/ \E key \in {"ingresado", ExtraKey}, pos \in PositionInputs :
          update_columna(key, [position |-> pos])
    \/ \E data \in CreateInputs : nextId <= MaxCards /\ create_tarjeta(data)
    \/ \E id \in CardIds : delete_tarjeta(id)
    \/ \E id \in CardIds : restore_tarjeta(id)

SpecCols == InitCols /\ [][NextCols]_vars

\* ------------------------------------------------- SpecTrash: the life of
\* a card from creation to permanent deletion.
InitTrash ==
    /\ columns = LimitedColumns
    /\ EmptyDb

NextTrash ==
    \/ \E data \in CreateInputs : nextId <= MaxCards /\ create_tarjeta(data)
    \/ \E id \in CardIds, s \in {"diagnosticada", "listos"} :
          update_tarjeta(id, [columna |-> s])
    \/ \E id \in CardIds : delete_tarjeta(id)
    \/ \E id \in CardIds : restore_tarjeta(id)
    \/ \E id \in CardIds : permanent_delete_tarjeta(id)

SpecTrash == InitTrash /\ [][NextTrash]_vars

\* ------------------------------------------------- SpecAuth: the card
\* endpoints called by a client that sends a bearer token or none.
\* The Authorization header of the client's requests from now on: creds is {}
\* (no header) or {token}.
client_credentials(creds) ==
    /\ env.token # creds
    /\ env' = [env EXCEPT !.token = creds]
    /\ UNCHANGED <<columns, cards, nextId, users, media, image_url, history, notifications, cache, now, resp,
                   sess, sio>>

InitAuth ==
    /\ columns = LimitedColumns
    /\ EmptyDb

NextAuth ==
    \/ \E creds \in {{}, {1}} : client_credentials(creds)
    \/ \E data \in CreateInputs : nextId <= MaxCards /\ create_tarjeta(data)
    \/ \E id \in CardIds : update_tarjeta(id, [columna |-> "para_entregar"])
    \/ \E id \in CardIds : delete_tarjeta(id)
    \/ \E id \in CardIds : restore_tarjeta(id)
    \/ get_trash
    \/ \E id \in CardIds :
          batch_update_positions(<<[id |-> id, columna |-> "diagnosticada", posicion |-> 0]>>)
    \/ \E ids \in SUBSET CardIds : batch_operations(ids, "delete", "")

SpecAuth == InitAuth /\ [][NextAuth]_vars

\* ------------------------------------------------- SpecErr: requests that
\* fail, on the cards and on the AI endpoint.
FALLBACK_IA == {"nombre", "telefono", "tiene_cargador"}

\* GEMINI_API_KEY set or not in the environment of the server
\* (get_gemini_service returns None without it).
configure_gemini(available) ==
    /\ env.gemini # available
    /\ env' = [env EXCEPT !.gemini = available]
    /\ UNCHANGED <<columns, cards, nextId, users, media, image_url, history, notifications, cache, now, resp,
                   sess, sio>>

\* POST /procesar-imagen.  `image` is the text of the body's image field and
\* `outcome` what extract_client_info_from_image does: it returns a dict,
\* returns something else or raises.  The 503 and 500 answers are JSONResponse
\* objects returned by the handler, with the keys written there.
procesar_imagen(image, outcome) ==
    /\ resp' =
          IF ~ env.gemini
             THEN [Response("procesar_imagen", 503, {}) EXCEPT
                      !.content = [keys |-> {"error", "_debug"} \cup FALLBACK_IA,
                                   code |-> ""]]
          ELSE IF image = <<>>
             THEN Response("procesar_imagen", 400, {})
          ELSE IF outcome = "dict"
             THEN Response("procesar_imagen", 200, {})
          ELSE IF outcome = "other"
             THEN [Response("procesar_imagen", 500, {}) EXCEPT
                      !.content = [keys |-> {"error"} \cup FALLBACK_IA, code |-> ""]]
          ELSE [Response("procesar_imagen", 500, {}) EXCEPT
                   !.content = [keys |-> {"error", "details", "_debug"} \cup FALLBACK_IA,
                                code |-> ""]]
    /\ sio' = no_emit
    /\ UNCHANGED <<columns, cards, nextId, users, media, image_url, history, notifications, cache, now, sess, env>>

ImageInputs == {<<>>, <<"data">>}
GeminiOutcomes == {"dict", "other", "raise"}

InitErr ==
    /\ columns = LimitedColumns
    /\ EmptyDb

NextErr ==
    \/ \E available \in BOOLEAN : configure_gemini(available)
    \/ \E image \in ImageInputs, outcome \in GeminiOutcomes : procesar_imagen(image, outcome)
    \/ \E data \in CreateInputs : nextId <= MaxCards /\ create_tarjeta(data)
    \/ \E id \in CardIds, s \in {"diagnosticada", ExtraKey} :
          update_tarjeta(id, [columna |-> s])
    \/ \E id \in CardIds : delete_tarjeta(id)

SpecErr == InitErr /\ [][NextErr]_vars

\* ------------------------------------------------- SpecSla: one card
\* moving over a board whose SLA thresholds an admin sets, hour by hour.
RulesInputs ==
    {[wip_limits |-> <<>>, sla_by_column |-> (key :> 1)] : key \in {"diagnosticada", "listos"}}

InitSla ==
    /\ columns = {}
    /\ cards = <<>>
    /\ nextId = 1
    /\ media = <<>>
    /\ image_url = <<>>
    /\ users = DefaultUsers
    /\ history = <<>>
    /\ notifications = <<>>
    /\ cache = [k \in CacheKeys |-> {}]
    /\ now = 0
    /\ resp = NoResp
    /\ sess = [p \in Procs |-> IdleSess]
    /\ sio = NoSio
    /\ env = [NoEnv EXCEPT !.token = {1}]

NextSla ==
    \/ \E data \in RulesInputs : update_kanban_rules(data)
    \/ \E data \in CreateInputs : nextId <= StampCards /\ create_tarjeta(data)
    \/ \E id \in 1..StampCards, s \in {"diagnosticada", "para_entregar", "listos"} :
          update_tarjeta(id, [columna |-> s])
    \/ \E id \in 1..StampCards : delete_tarjeta(id)
    \/ get_kanban_metrics
    \/ HourTick

SpecSla == InitSla /\ [][NextSla]_vars

\* ------------------------------------------------- SpecEnrich: listings
\* of none, one or two cards, with and without tag links.
TaggedInputs == {TarjetaCreate(<<>>), TarjetaCreate([tags |-> {1}])}

InitEnrich ==
    /\ columns = LimitedColumns
    /\ EmptyDb

NextEnrich ==
    \/ \E data \in TaggedInputs : nextId <= MaxCards /\ create_tarjeta(data)
    \/ \E id \in CardIds : update_tarjeta(id, [columna |-> "diagnosticada"])
    \/ \E id \in CardIds : delete_tarjeta(id)
    \/ \E d \in BOOLEAN, e \in EstadoFilters : get_tarjetas(d, e)

SpecEnrich == InitEnrich /\ [][NextEnrich]_vars

\* ------------------------------------------------- SpecCreate: cards
\* created from request bodies with absent, null, blank and given fields.
CreateBodies ==
    {<<>>,
     [nombre_propietario |-> {}, problema |-> {}, prioridad |-> {}],
     [nombre_propietario |-> {<<>>}, problema |-> {<<" ">>}],
     [nombre_propietario |-> {<<" ", " ">>}, prioridad |-> {"baja"}],
     [nombre_propietario |-> {<<" ", "Ana", " ">>}, problema |-> {<<"Pantalla", " ", "rota">>},
      prioridad |-> {"alta"}]}

InitCreate ==
    /\ columns = LimitedColumns
    /\ EmptyDb

NextCreate ==
    \/ \E body \in CreateBodies : nextId <= MaxCards /\ create_tarjeta(TarjetaCreate(body))
    \/ \E id \in CardIds, pos \in PositionInputs : update_tarjeta(id, [posicion |-> pos])
    \/ \E id \in CardIds : update_tarjeta(id, [columna |-> "diagnosticada"])
    \/ \E id \in CardIds : delete_tarjeta(id)

SpecCreate == InitCreate /\ [][NextCreate]_vars

\* ------------------------------------------------- SpecReject: update
\* requests that carry several fields, some of them with a target status
\* that is refused, between reads of the cached statistics.
FullUpdate(s) ==
    [columna |-> s, nombre_propietario |-> <<"Ana">>, prioridad |-> "alta",
     posicion |-> 5, asignado_a |-> {1}, tags |-> {1}]

UpdateInputs ==
    {FullUpdate(s) : s \in {"diagnosticada", ExtraKey}} \cup {[columna |-> "diagnosticada"]}

InitReject ==
    /\ columns = LimitedColumns
    /\ EmptyDb

NextReject ==
    \/ \E data \in CreateInputs : nextId <= MaxCards /\ create_tarjeta(data)
    \/ \E id \in CardIds, upd \in UpdateInputs : update_tarjeta(id, upd)
    \/ \E id \in CardIds : delete_tarjeta(id)
    \/ get_estadisticas

SpecReject == InitReject /\ [][NextReject]_vars

\* ------------------------------------------------- SpecConc: two server
\* processes handling update_tarjeta requests against one database.  The
\* board holds ConcCards cards created at time 0, the first one assigned to
\* user 1, and "diagnosticada" has a WIP limit of 1.
ConcTargets == {"diagnosticada", "para_entregar"}

InitConc ==
    /\ columns = LimitedColumns
    /\ cards = [i \in 1..ConcCards |->
                  NewCard(TarjetaCreate([asignado_a |-> IF i = 1 THEN {1} ELSE {}]), i, 0)]
    /\ nextId = ConcCards + 1
    /\ media = <<>>
    /\ image_url = <<>>
    /\ users = DefaultUsers
    /\ history = <<>>
    /\ notifications = <<>>
    /\ cache = [k \in CacheKeys |-> {}]
    /\ now = 0
    /\ resp = NoResp
    /\ sess = [p \in Procs |-> IdleSess]
    /\ sio = NoSio
    /\ env = NoEnv

NextConc ==
    \/ \E p \in Procs, id \in 1..ConcCards, s \in ConcTargets :
          update_begin(p, id, [columna |-> s])
    \/ \E p \in Procs : update_check(p)
    \/ \E p \in Procs : update_commit(p)
    \/ \E p \in Procs : update_emit(p)

SpecConc == InitConc /\ [][NextConc]_vars

\* ------------------------------------------------- SpecEmit: the same
\* two processes, with the statistics being read and the socket server
\* going down and coming back.
\* sio.emit works (up) or raises (down) from now on.
sio_available(up) ==
    /\ env.sio_up # up
    /\ env' = [env EXCEPT !.sio_up = up]
    /\ UNCHANGED <<columns, cards, nextId, users, media, image_url, history, notifications, cache, now, resp,
                   sess, sio>>

EmitCards == 1..2

NextEmit ==
    \/ \E p \in Procs, id \in EmitCards, s \in ConcTargets :
          update_begin(p, id, [columna |-> s])
    \/ \E p \in Procs : update_check(p)
    \/ \E p \in Procs : update_commit(p)
    \/ \E p \in Procs : update_emit(p)
    \/ get_estadisticas
    \/ \E up \in BOOLEAN : sio_available(up)

SpecEmit == InitConc /\ [][NextEmit]_vars

\* ------------------------------------------------- SpecNotify: one card
\* moved by requests that also set, clear or leave its assignee.
NotifyInputs ==
    {[columna |-> s] : s \in DefaultStatuses}
    \cup {[columna |-> s, asignado_a |-> a] : s \in DefaultStatuses, a \in {{}, {1}}}

NextNotify ==
    \/ \E data \in CreateInputs : nextId <= StampCards /\ create_tarjeta(data)
    \/ \E id \in 1..StampCards, upd \in NotifyInputs : update_tarjeta(id, upd)

SpecNotify == InitList /\ [][NextNotify]_vars

\* ------------------------------------------------- SpecStats: statistics
\* requests running in the thread pool beside the card requests.
\* get_estadisticas in server thread p, statement by statement: line 150
\* get_cached and, on a miss, line 153 _compute_estadisticas; then line 154
\* set_cached and the answer.
estadisticas_begin(p) ==
    /\ sess[p].pc = "idle"
    /\ cache' = get_cached_store(cache, STATS_KEY, now)
    /\ sio' = no_emit
    /\ LET cached == get_cached_value(cache, STATS_KEY, now)
       IN IF cached # {}
             THEN /\ \E v \in cached :
                        resp' = [Response("get_estadisticas", 200, {}) EXCEPT !.body = v]
                  /\ UNCHANGED sess
             ELSE /\ sess' = [sess EXCEPT ![p] =
                                 [IdleSess EXCEPT !.pc = "computed",
                                                  !.result = compute_estadisticas(cards)]]
                  /\ UNCHANGED resp
    /\ UNCHANGED <<columns, cards, nextId, users, media, image_url, history, notifications, now, env>>

estadisticas_store(p) ==
    /\ sess[p].pc = "computed"
    /\ cache' = set_cached(cache, STATS_KEY, sess[p].result, DEFAULT_TTL, now)
    /\ resp' = [Response("get_estadisticas", 200, {}) EXCEPT !.body = sess[p].result]
    /\ sio' = no_emit
    /\ sess' = [sess EXCEPT ![p] = IdleSess]
    /\ UNCHANGED <<columns, cards, nextId, users, media, image_url, history, notifications, now, env>>

NextStats ==
    \/ \E data \in CreateInputs : nextId <= MaxCards /\ create_tarjeta(data)
    \/ \E id \in CardIds : delete_tarjeta(id)
    \/ \E id \in CardIds : restore_tarjeta(id)
    \/ \E p \in Procs : estadisticas_begin(p)
    \/ \E p \in Procs : estadisticas_store(p)

SpecStats == InitList /\ [][NextStats]_vars

\* ===================================================================
\* Claims
\* ===================================================================

\* The rows a step appended to status_history and to notifications.
NewHistory == SubSeq(history', Len(history) + 1, Len(history'))
NewNotifs == SubSeq(notifications', Len(notifications) + 1, Len(notifications'))

RowsOf(rows, i) == {k \in 1..Len(rows) : rows[k].tarjeta_id = i}

StageDateSet(t, st) ==
    CASE st = "ingresado" -> t.ingresado_date # {}
      [] st = "diagnosticada" -> t.diagnosticada_date # {}
      [] st = "para_entregar" -> t.para_entregar_date # {}
      [] st = "listos" -> t.entregados_date # {}
      [] OTHER -> TRUE

\* C1: the status of every card is a configured column key (one of the four
\* default keys when no column is configured), whatever update operations
\* ran; a request naming another status leaves the stored status alone.
C1_StatusInColumnSet ==
    \A i \in DOMAIN cards : cards[i].status \in get_valid_statuses(columns)

\* C2: no operation moves a card into a column with WIP limit L when the
\* non-deleted cards already in that column, the moved card not counted,
\* number L or more: the card stays in its previous column.
C2_MoveRespectsWip ==
    [][\A i \in DOMAIN cards :
          cards'[i].status # cards[i].status
             => ~ wip_limit_reached(columns, cards, i, cards'[i].status)]_vars

\* The rows of card i among `rows`, in their order.
RECURSIVE RowsFor(_, _)
RowsFor(rows, i) ==
    IF rows = <<>> THEN <<>>
    ELSE (IF Head(rows).tarjeta_id = i THEN <<Head(rows)>> ELSE <<>>)
         \o RowsFor(Tail(rows), i)

\* C3: the StatusHistory rows an operation appends for a card are exactly the
\* status changes it makes to it: each row records a change (old status
\* differs from new status), the rows lead from the status the card had to
\* the status it has, and an operation whose requested status is the card's
\* current status appends no row.
C3_OneRowPerChange ==
    [][\A i \in DOMAIN cards :
          LET rows == RowsFor(NewHistory, i)
          IN /\ \A k \in 1..Len(rows) :
                   /\ rows[k].old_status # rows[k].new_status
                   /\ rows[k].old_status =
                         IF k = 1 THEN cards[i].status ELSE rows[k - 1].new_status
             /\ rows # <<>> => rows[Len(rows)].new_status = cards'[i].status
             /\ rows = <<>> => cards'[i].status = cards[i].status]_vars

\* C4: a stage timestamp is set in the step that first moves the card into
\* the stage, to the time of that step, is set only then, and once set is
\* never overwritten or cleared; a card that is in a stage has its timestamp.
C4_Step ==
    /\ \A i \in DOMAIN cards' \ DOMAIN cards : cards'[i].ingresado_date = {now}
    /\ \A i \in DOMAIN cards \cap DOMAIN cards' :
          /\ cards'[i].ingresado_date = cards[i].ingresado_date
          /\ \A st \in {"diagnosticada", "para_entregar", "listos"} :
                LET f == CASE st = "diagnosticada" -> "diagnosticada_date"
                           [] st = "para_entregar" -> "para_entregar_date"
                           [] st = "listos" -> "entregados_date"
                IN /\ cards[i][f] # {} => cards'[i][f] = cards[i][f]
                   /\ cards[i][f] = {} /\ cards'[i].status = st
                         => cards'[i][f] = {now}
                   /\ cards[i][f] = {} /\ cards'[i][f] # {}
                         => cards'[i].status = st /\ cards[i].status # st

C4_StageTimestampsSetOnce ==
    /\ [](\A i \in DOMAIN cards : StageDateSet(cards[i], cards[i].status))
    /\ [][C4_Step]_vars

\* A card back in "diagnosticada" by a transition made after time 0 that
\* still carries the timestamp of its first entry at time 0.
C4_Witness ==
    \E i \in DOMAIN cards :
        /\ cards[i].status = "diagnosticada"
        /\ cards[i].diagnosticada_date = {0}
        /\ Len(history) = MaxHist
        /\ history[1].new_status = "diagnosticada"
        /\ history[Len(history)].new_status = "diagnosticada"
        /\ history[Len(history)].changed_at > 0
        /\ \A k \in 1..Len(history) : history[k].tarjeta_id = i

\* C5: what one update_tarjeta request writes becomes visible in one step of
\* the committed tables: a card's status changes only together with its one
\* StatusHistory row, its stage timestamp and its notifications, none of
\* these appears without the status they belong to, and a rejected request
\* changes no table.
C5_Step ==
    /\ \A i \in DOMAIN cards :
          LET rows == RowsOf(NewHistory, i)
              notifs == RowsOf(NewNotifs, i)
              infos == {k \in notifs : NewNotifs[k].type = "info"}
              successes == {k \in notifs : NewNotifs[k].type = "success"}
          IN /\ cards'[i].status # cards[i].status => Cardinality(rows) = 1
             /\ \A k \in rows :
                   /\ cards'[i].status = NewHistory[k].new_status
                   /\ StageDateSet(cards'[i], NewHistory[k].new_status)
                   /\ Cardinality(infos) = IF cards'[i].assigned_to # {} THEN 1 ELSE 0
                   /\ Cardinality(successes) =
                         IF NewHistory[k].new_status \in {"para_entregar", "listos"}
                            THEN 1 ELSE 0
             /\ rows = {} => notifs = {} /\ cards'[i] = cards[i]
    /\ resp' # resp /\ resp'.code = 400
          => UNCHANGED <<cards, history, notifications>>

C5_UpdateVisibleAtOnce == [][C5_Step]_vars

\* A committed status change of the assigned card, with its history row and
\* its notification, while the other process is between its check and commit.
C5_Witness ==
    /\ resp.op = "update_tarjeta" /\ resp.code = 200
    /\ \E k \in 1..Len(history) :
          /\ history[k].tarjeta_id = 1
          /\ cards[1].status = history[k].new_status
    /\ \E k \in 1..Len(notifications) : notifications[k].type = "info"
    /\ \E p \in Procs : sess[p].pc = "commit"

ColumnOverflow(col) ==
    Cardinality(InColumn(cards, col.key)) - SetMax(col.wip_limit)

\* C6: the WIP check is not atomic with the commit: with two update_tarjeta
\* requests in flight a column with limit L can come to hold L + 1 non-deleted
\* cards (the witness), and never more than that.
C6_RaceExceedsByOne ==
    \A col \in columns : col.wip_limit # {} => ColumnOverflow(col) <= Cardinality(Procs) - 1

\* Both requests moved a different card from "ingresado" into "diagnosticada",
\* which was empty (limit - 1 cards) when each of them ran its check.
C6_Witness ==
    /\ Cardinality(InColumn(cards, "diagnosticada")) = 2
    /\ Col("diagnosticada", 1, {1}) \in columns
    /\ Len(history) = 2
    /\ \A k \in 1..2 : /\ history[k].old_status = "ingresado"
                       /\ history[k].new_status = "diagnosticada"
    /\ history[1].tarjeta_id # history[2].tarjeta_id

\* C7: after a card mutation every cached aggregate is invalidated, so a read
\* of get_estadisticas or get_kanban_metrics answers what the database holds
\* now, never a snapshot stored before the mutation.
C7_ReadsAreFresh ==
    /\ resp.op = "get_estadisticas" => resp.body = compute_estadisticas(cards)
    /\ resp.op = "get_kanban_metrics" => resp.body.cfd = compute_kanban_metrics(cards)

\* C8: with the WIP limits fixed and requests run one at a time, every column
\* with a WIP limit holds at most that many non-deleted cards.
C8_WipLimitHeld ==
    \A col \in columns : col.wip_limit # {} => ColumnOverflow(col) <= 0

\* C9: whatever columns are created and deleted and whatever cards are
\* created, soft-deleted and restored, the status of every non-deleted card
\* is a configured column key.
C9_StatusSurvivesColumnChanges ==
    \A i \in Live(cards) : cards[i].status \in get_valid_statuses(columns)

\* The first columns of the board: the configured columns of lowest position,
\* and "ingresado", the first of the default columns, when none is configured.
FirstColumns(cols) ==
    IF cols = {} THEN {"ingresado"}
    ELSE {c.key : c \in {c \in cols : \A d \in cols : c.position <= d.position}}

\* C10: get_tarjetas answers exactly the matching cards that are not
\* soft-deleted, and with include_deleted exactly the matching cards; a card
\* is gone from the default listing once delete_tarjeta answered and back in
\* it once restore_tarjeta answered.
C10_ListingFiltersDeleted ==
    /\ resp.op = "get_tarjetas" =>
          resp.ids = {i \in DOMAIN cards :
                        /\ resp.args.include_deleted \/ cards[i].deleted_at = {}
                        /\ resp.args.estado = {} \/ cards[i].status \in resp.args.estado}
    /\ resp.op = "delete_tarjeta" /\ resp.code = 204 =>
          /\ resp.ids \cap get_tarjetas_query(cards, FALSE, {}) = {}
          /\ resp.ids \subseteq get_tarjetas_query(cards, TRUE, {})
    /\ resp.op = "restore_tarjeta" /\ resp.code = 200 =>
          resp.ids \subseteq get_tarjetas_query(cards, FALSE, {})

\* A listing with include_deleted that holds a soft-deleted card next to a
\* live one.
C10_Witness ==
    /\ resp.op = "get_tarjetas"
    /\ resp.args.include_deleted
    /\ \E i \in resp.ids : cards[i].deleted_at # {}
    /\ \E i \in resp.ids : cards[i].deleted_at = {}

\* C11: create_tarjeta puts the new card in the first column of the board,
\* the configured column of lowest position, whatever the columns are.
C11_CreatedInFirstColumn ==
    [][\A i \in DOMAIN cards' \ DOMAIN cards :
          cards'[i].status \in FirstColumns(columns)]_vars

\* C12: a card is removed for good only while it is soft-deleted: in the
\* step that removes the row its deleted_at is set.
C12_PermanentAfterSoftDelete ==
    [][\A i \in DOMAIN cards \ DOMAIN cards' : cards[i].deleted_at # {}]_vars

BroadcastNames ==
    {"tarjeta_creada", "tarjeta_actualizada", "tarjeta_eliminada", "tarjetas_reordenadas"}

\* C13: every broadcast card event is one of the four kinds, carries an
\* event_version, and its event_version is never smaller than the one of the
\* event broadcast before it (the previous event of the same request or the
\* last event of the requests before).
C13_EventVersionMonotonic ==
    [][sio' # sio =>
          \A k \in 1..Len(sio'.events) :
             /\ sio'.events[k].name \in BroadcastNames
             /\ "event_version" \in DOMAIN sio'.events[k]
             /\ sio'.events[k].event_version >=
                   (IF k = 1 THEN sio.last_version ELSE sio'.events[k - 1].event_version)]_vars

\* A request that broadcast two events, on a board whose earlier requests
\* broadcast the creation of two cards and the soft delete of one of them.
C13_Witness ==
    /\ Len(sio.events) = 2
    /\ \A k \in 1..2 : sio.events[k].name = "tarjeta_actualizada"
    /\ sio.last_version = 1
    /\ \E i \in DOMAIN cards : cards[i].deleted_at # {} /\ cards[i].status = "diagnosticada"

ProtectedOps ==
    {"delete_tarjeta", "restore_tarjeta", "get_trash", "batch_update_positions",
     "batch_operations"}

\* C14: a request without credentials to the soft-delete, restore, trash-list,
\* batch-positions or batch-operations endpoint is answered 401 and changes
\* no card.
C14_NoCredentialsUnauthorized ==
    [][(/\ env.token = {}
        /\ env' = env
        /\ resp'.op \in ProtectedOps
        /\ resp' # resp \/ cards' # cards)
          => resp'.code = 401 /\ cards' = cards]_vars

\* C15: every response with a 4xx or 5xx status has a body with exactly the
\* keys code, message, details and request_id, and its code is the one
\* default_code_for_status gives for the status.
C15_ErrorEnvelope ==
    resp.code >= 400 =>
        /\ resp.content.keys = {"code", "message", "details", "request_id"}
        /\ resp.content.code = default_code_for_status(resp.code)

\* The time card i most recently entered the column it is in: the changed_at
\* of its last StatusHistory row into that column, or its creation when it
\* never moved there.
EnteredAt(i) ==
    LET rows == {k \in 1..Len(history) :
                    /\ history[k].tarjeta_id = i
                    /\ history[k].new_status = cards[i].status
                    /\ history[k].old_status # history[k].new_status}
    IN IF rows = {} THEN SetMax(cards[i].ingresado_date)
       ELSE history[SetMax(rows)].changed_at

SlaExpected ==
    {i \in DOMAIN cards :
        /\ cards[i].deleted_at = {}
        /\ \E col \in columns :
              /\ col.key = cards[i].status
              /\ \E h \in col.sla_hours : now - EnteredAt(i) > h * HourSeconds}

\* C16: when get_kanban_metrics computes its answer (no cached answer is
\* served), the SLA violations it reports are exactly the non-deleted cards
\* whose column has an SLA threshold and which entered that column, the last
\* time they did, longer ago than the threshold.
C16_SlaViolationsExact ==
    [][(/\ resp'.op = "get_kanban_metrics"
        /\ get_cached_value(cache, cache_key, now) = {}
        /\ cache' # cache)
          => resp'.body.sla_violations = SlaExpected]_vars

MissingText(body, key) ==
    \/ key \notin DOMAIN body
    \/ body[key] = {}
    \/ \E v \in body[key] : \A k \in DOMAIN v : v[k] = " "

\* C18: a card created with the owner name absent or blank has owner
\* "Cliente", with the problem absent or blank has problem "Sin descripción",
\* with no priority has priority "media"; it always has status "ingresado"
\* and a position one greater than the largest position of the non-deleted
\* cards of "ingresado".
C18_CreateDefaults ==
    [][\A i \in DOMAIN cards' \ DOMAIN cards :
          /\ \A body \in CreateBodies :
                resp'.args = TarjetaCreate(body) =>
                   /\ MissingText(body, "nombre_propietario") => cards'[i].owner_name = Cliente
                   /\ MissingText(body, "problema") => cards'[i].problem = SinDescripcion
                   /\ ("prioridad" \notin DOMAIN body \/ body.prioridad = {})
                         => cards'[i].priority = "media"
          /\ cards'[i].status = "ingresado"
          /\ \A j \in InColumn(cards, "ingresado") : cards'[i].position > cards[j].position
          /\ InColumn(cards, "ingresado") # {}
                => \E j \in InColumn(cards, "ingresado") :
                      cards'[i].position = cards[j].position + 1]_vars

\* A card created from a white-space owner name and no problem, behind a
\* card that was moved to position 5: defaults stored, position 6.
C18_Witness ==
    /\ resp.op = "create_tarjeta"
    /\ resp.args = TarjetaCreate([nombre_propietario |-> {<<" ", " ">>}, prioridad |-> {"baja"}])
    /\ \E i \in resp.ids :
          /\ cards[i].owner_name = Cliente
          /\ cards[i].problem = SinDescripcion
          /\ cards[i].priority = "baja"
          /\ cards[i].position = 6
          /\ cards[i].status = "ingresado"

\* The target of an update request is refused: it is no configured column
\* key, or its column has a WIP limit that the other non-deleted cards of the
\* column already fill.
TargetRefused(id, nuevo) ==
    \/ nuevo \notin {c.key : c \in columns}
    \/ \E c \in columns :
          /\ c.key = nuevo
          /\ c.wip_limit # {} /\ c.wip_limit # {0}
          /\ Cardinality({j \in DOMAIN cards \ {id} :
                             cards[j].deleted_at = {} /\ cards[j].status = nuevo})
                >= SetMax(c.wip_limit)

EmitStep(p) == sess[p].pc = "emit" /\ sess'[p].pc = "idle"

\* C20: a successful update_tarjeta broadcasts exactly one tarjeta_actualizada
\* event with the row as its commit left it, in a step after the one that
\* committed and invalidated the cached statistics; no other step of the
\* request broadcasts; when the broadcast fails the answer is the same 200
\* and the committed tables stay as they are.
C20_Step ==
    /\ \A p \in Procs :
          /\ (sess[p].pc = "commit" /\ sess'[p].pc = "emit")
                => /\ sess'[p].t = cards'[sess[p].id]
                   /\ cache'[STATS_KEY] = {}
                   /\ UNCHANGED <<sio, resp>>
          /\ (sess[p].pc = "emit" /\ sess'[p].pc = "emit") => sess'[p].t = sess[p].t
          /\ EmitStep(p)
                => /\ resp'.op = "update_tarjeta" /\ resp'.code = 200
                   /\ resp'.ids = {sess[p].id}
                   /\ UNCHANGED <<cards, history, notifications, cache>>
                   /\ sio'.events =
                         IF env.sio_up
                            THEN <<[name |-> "tarjeta_actualizada", event_version |-> 1,
                                    ids |-> {sess[p].id},
                                    data |-> sess[p].id :> sess[p].t]>>
                            ELSE <<>>
    /\ (sio'.events # <<>> /\ sio' # sio) => \E p \in Procs : EmitStep(p)

C21_Step ==
    (resp'.op = "update_tarjeta" /\ resp'.code = 200) =>
        LET i == resp'.args.id
            data == resp'.args.data
            assignee == IF "asignado_a" \in DOMAIN data THEN data.asignado_a
                        ELSE cards[i].assigned_to
            infos == {k \in 1..Len(NewNotifs) : NewNotifs[k].type = "info"}
            successes == {k \in 1..Len(NewNotifs) : NewNotifs[k].type = "success"}
        IN IF cards'[i].status # cards[i].status
              THEN /\ Cardinality(infos) = IF assignee # {} THEN 1 ELSE 0
                   /\ \A k \in infos : NewNotifs[k].user_id = assignee
                   /\ Cardinality(successes) =
                         IF cards'[i].status \in {"para_entregar", "listos"} THEN 1 ELSE 0
                   /\ Len(NewNotifs) = Cardinality(infos) + Cardinality(successes)
                   /\ \A k \in 1..Len(NewNotifs) : NewNotifs[k].tarjeta_id = i
              ELSE NewNotifs = <<>>

C21_StatusChangeNotifies == [][C21_Step]_vars

\* A request that assigned the card to user 1 and moved it to "para_entregar":
\* the last two notifications are the assignee's and the "success" one.
C21_Witness ==
    /\ resp.op = "update_tarjeta" /\ resp.code = 200
    /\ resp.args.data = [columna |-> "para_entregar", asignado_a |-> {1}]
    /\ Len(notifications) = 2
    /\ notifications[1] = Notif("info", {1}, resp.args.id)
    /\ notifications[2] = Notif("success", {}, resp.args.id)
    /\ Len(history) = 1

\* C22: with statistics requests interleaved with card mutations (each
\* mutation commits and invalidates in one step), the statistics snapshot in
\* the cache is never one computed before the last commit: it is the
\* statistics of the cards as they are.
C22_NoStaleSnapshot ==
    \A e \in cache[STATS_KEY] : e.value = compute_estadisticas(cards)

\* ------------------------------------------------- SpecChain: every handler
\* that writes status_history, one request at a time.
ChainItems == {[id |-> i, columna |-> s, posicion |-> 0] :
                  i \in 1..StampCards, s \in DefaultStatuses}

NextChain ==
    \/ \E data \in CreateInputs : nextId <= StampCards /\ create_tarjeta(data)
    \/ \E id \in 1..StampCards, s \in DefaultStatuses : update_tarjeta(id, [columna |-> s])
    \/ \E a \in ChainItems : batch_update_positions(<<a>>)
    \/ \E a \in ChainItems, b \in ChainItems : batch_update_positions(<<a, b>>)
    \/ \E ids \in SUBSET (1..StampCards), s \in DefaultStatuses :
          batch_operations(ids, "move", s)

SpecChain == InitList /\ [][NextChain]_vars

\* The status_history rows of card i, in insertion order.
HistoryOf(i) == SelectSeq(history, LAMBDA h : h.tarjeta_id = i)

\* C23: with requests executed one at a time, the status_history rows of each
\* card form a chain in insertion order: the first row starts from 'ingresado',
\* each row starts from the status the previous one ended in, and the last row
\* ends in the card's current status; a card without rows is in 'ingresado'.
C23_HistoryChain ==
    \A i \in DOMAIN cards :
        LET rows == HistoryOf(i)
        IN IF rows = <<>>
              THEN cards[i].status = "ingresado"
              ELSE /\ rows[1].old_status = "ingresado"
                   /\ \A k \in 2..Len(rows) : rows[k].old_status = rows[k - 1].new_status
                   /\ rows[Len(rows)].new_status = cards[i].status

\* A card moved by update_tarjeta, by batch_update_positions and by
\* batch_operations in turn: three rows, ending where the card is.
C23_Witness ==
    /\ 1 \in DOMAIN cards
    /\ Len(HistoryOf(1)) = 3
    /\ HistoryOf(1)[1].new_status = "diagnosticada"
    /\ HistoryOf(1)[2].new_status = "para_entregar"
    /\ HistoryOf(1)[3].new_status = "listos"
    /\ cards[1].status = "listos"
    /\ resp.op = "batch_operations"

\* The non-deleted cards a step brought into column key.
MovedInto(key) == InColumn(cards', key) \ InColumn(cards, key)

\* The free slots of a column before the step (0 when it is full or over).
FreeSlots(col, lim) ==
    IF Cardinality(InColumn(cards, col.key)) >= lim
        THEN 0 ELSE lim - Cardinality(InColumn(cards, col.key))

\* C24: one batch_update_positions request moves into a column with a WIP
\* limit at most as many cards as the column had free slots, because the check
\* of each item counts the cards earlier items of the request moved there.
C24_Step ==
    (resp'.op = "batch_update_positions" /\ resp'.code = 200)
        => \A col \in columns : \A lim \in col.wip_limit :
              lim # 0 => Cardinality(MovedInto(col.key)) <= FreeSlots(col, lim)

C24_BatchRespectsWip == [][C24_Step]_vars

\* ------------------------------------------------- SpecBatch: reorder
\* requests of one or two items, with the statistics cache filled.
NextBatch ==
    \/ \E data \in CreateInputs : nextId <= MaxCards /\ create_tarjeta(data)
    \/ \E items \in ItemLists({"ingresado", "diagnosticada"}) : batch_update_positions(items)
    \/ get_estadisticas

SpecBatch == InitList /\ [][NextBatch]_vars

\* C25: a batch_update_positions request that the WIP check rejects persists
\* nothing (no position, status, stage timestamp or history row of any item),
\* leaves the statistics cache as it was and emits no event.
C25_Step ==
    (resp'.op = "batch_update_positions" /\ resp'.code = 400)
        => /\ UNCHANGED <<cards, history, notifications, cache>>
           /\ sio'.events = <<>>

C25_BatchAllOrNothing == [][C25_Step]_vars

\* A rejected request on a board with the limited column full: card 2 keeps
\* the position it was created with (every item asks for position 0) and the
\* cached statistics are still there.
C25_Witness ==
    /\ resp.op = "batch_update_positions"
    /\ resp.code = 400
    /\ DOMAIN cards = {1, 2}
    /\ cards[1].status = "diagnosticada"
    /\ cards[2].status = "ingresado"
    /\ cards[2].position # 0
    /\ cache[STATS_KEY] # {}
    /\ sio.events = <<>>

\* ------------------------------------------------- media (routes/tarjetas.py)
ActiveMedia(m, id) == {k \in 1..Len(m) : m[k].tarjeta_id = id /\ ~m[k].deleted}

\* ORDER BY position ASC, id ASC over a set of media ids.
RECURSIVE MediaOrder(_, _)
MediaOrder(m, S) ==
    IF S = {} THEN <<>>
    ELSE LET k == CHOOSE x \in S : \A y \in S :
                     \/ m[x].position < m[y].position
                     \/ (m[x].position = m[y].position /\ x <= y)
         IN <<k>> \o MediaOrder(m, S \ {k})

\* _media_rows_for_card: the ids of the non-deleted rows the database holds.
media_rows_for_card(m, id) == MediaOrder(m, ActiveMedia(m, id))

ImageUrl(id) == IF id \in DOMAIN image_url THEN {image_url[id]} ELSE {}

\* The rows of one upload request of n files, lines 806-827: `current` is read
\* once, so only the first file of the first upload is the cover.
uploaded_rows(m, id, n) ==
    LET current == media_rows_for_card(m, id)
        next_pos == IF current = <<>> THEN 0
                    ELSE SetMax({m[current[k]].position : k \in 1..Len(current)}) + 1
    IN [j \in 1..n |->
           MediaRow(Len(m) + j, id, next_pos + j - 1,
                    Len(current) = 0 /\ next_pos + j - 1 = 0)]

upload_tarjeta_media(id, n) ==
    /\ UNCHANGED <<columns, cards, nextId, users, history, notifications, now, sess, env,
                   image_url>>
    /\ sio' = no_emit
    /\ IF id \notin DOMAIN cards
          THEN /\ resp' = Response("upload_tarjeta_media", 404, {})
               /\ UNCHANGED <<media, cache>>
       ELSE IF Len(media_rows_for_card(media, id)) + n > MAX_MEDIA_PER_CARD
          THEN /\ resp' = Response("upload_tarjeta_media", 400, {})
               /\ UNCHANGED <<media, cache>>
          ELSE /\ Len(media) + n <= MaxMedia
               /\ media' = media \o uploaded_rows(media, id, n)
               /\ cache' = invalidate_stats(cache)
               /\ resp' = Response("upload_tarjeta_media", 201, {id})

\* The lookup of lines 855-859 and 878-882: the row of this card, not deleted.
media_found(id, media_id) ==
    /\ media_id \in 1..Len(media)
    /\ media[media_id].tarjeta_id = id
    /\ ~media[media_id].deleted

\* is_cover after update_tarjeta_media with is_cover = true, lines 863-868.
\* The bulk UPDATE (synchronize_session=False) clears is_cover of every
\* non-deleted row of the card in the database and leaves the loaded object m
\* as it was; `m.is_cover = True` is written at the commit only if it changes
\* the loaded value.
set_cover(m, id, media_id) ==
    [k \in 1..Len(m) |->
        IF k \in ActiveMedia(m, id)
           THEN [m[k] EXCEPT !.is_cover = (k = media_id /\ ~m[media_id].is_cover)]
           ELSE m[k]]

update_tarjeta_media(id, media_id, is_cover) ==
    /\ UNCHANGED <<columns, cards, nextId, users, history, notifications, cache, now, sess, env>>
    /\ sio' = no_emit
    /\ IF id \notin DOMAIN cards \/ ~media_found(id, media_id)
          THEN /\ resp' = Response("update_tarjeta_media", 404, {})
               /\ UNCHANGED <<media, image_url>>
       ELSE IF is_cover
          THEN /\ media' = set_cover(media, id, media_id)
               /\ image_url' = (id :> media[media_id].url) @@ image_url
               /\ resp' = Response("update_tarjeta_media", 200, {id})
          ELSE /\ UNCHANGED <<media, image_url>>
               /\ resp' = Response("update_tarjeta_media", 200, {id})

\* delete_tarjeta_media, lines 883-901.  m.deleted_at is pending when `active`
\* is queried and the session does not autoflush, so the query still returns m.
delete_tarjeta_media(id, media_id) ==
    /\ UNCHANGED <<columns, cards, nextId, users, history, notifications, cache, now, sess, env>>
    /\ sio' = no_emit
    /\ IF id \notin DOMAIN cards \/ ~media_found(id, media_id)
          THEN /\ resp' = Response("delete_tarjeta_media", 404, {})
               /\ UNCHANGED <<media, image_url>>
          ELSE LET active == media_rows_for_card(media, id)
                   m1 == [media EXCEPT ![media_id].deleted = TRUE]
               IN /\ resp' = Response("delete_tarjeta_media", 204, {id})
                  /\ IF active # <<>> /\ \A k \in 1..Len(active) : ~m1[active[k]].is_cover
                        THEN /\ media' = [m1 EXCEPT ![active[1]].is_cover = TRUE]
                             /\ image_url' = (id :> m1[active[1]].url) @@ image_url
                     ELSE IF active = <<>>
                        THEN /\ media' = m1
                             /\ image_url' = [i \in DOMAIN image_url \ {id} |-> image_url[i]]
                        ELSE /\ media' = m1
                             /\ UNCHANGED image_url

\* ------------------------------------------------- SpecMedia: one card and
\* its media.
NextMedia ==
    \/ \E data \in CreateInputs : nextId <= StampCards /\ create_tarjeta(data)
    \/ \E id \in 1..StampCards, n \in 1..2 : upload_tarjeta_media(id, n)
    \/ \E id \in 1..StampCards, media_id \in 1..MaxMedia, is_cover \in BOOLEAN :
          update_tarjeta_media(id, media_id, is_cover)
    \/ \E id \in 1..StampCards, media_id \in 1..MaxMedia : delete_tarjeta_media(id, media_id)

SpecMedia == InitList /\ [][NextMedia]_vars

\* C26: after any sequence of uploads, cover changes and media deletions,
\* every card with a non-deleted media row has exactly one non-deleted cover
\* row and image_url is that row's url; a card whose media rows are all
\* deleted has image_url unset.
C26_OneCover ==
    \A i \in DOMAIN cards :
        LET act == ActiveMedia(media, i)
        IN /\ act # {} =>
                 \E k \in act :
                    /\ media[k].is_cover
                    /\ \A j \in act : media[j].is_cover => j = k
                    /\ ImageUrl(i) = {media[k].url}
           /\ (act = {} /\ \E k \in 1..Len(media) : media[k].tarjeta_id = i)
                 => ImageUrl(i) = {}

\* ------------------------------------------------- _enrich_tarjeta and
\* _enrich_batch: the fields both compute that the model has rows for.
\* dias_en_columna, lines 98-111 and 174-186 (the same code in both): whole
\* days since the stage timestamp of the card's status, 0 without one.
dias_en_columna(t, time) ==
    LET d == CASE t.status = "ingresado" -> t.ingresado_date
               [] t.status = "diagnosticada" -> t.diagnosticada_date
               [] t.status = "para_entregar" -> t.para_entregar_date
               [] t.status = "listos" -> t.entregados_date
               [] OTHER -> {}
    IN IF d = {} THEN 0 ELSE (time - (CHOOSE x \in d : TRUE)) \div (24 * HourSeconds)

\* _media_cover_map: per card, the url of the first non-deleted row in the
\* order is_cover DESC, position ASC, id ASC ({} without rows).
media_cover_map(m, id) ==
    LET act == ActiveMedia(m, id)
    IN {m[k].url : k \in {x \in act : \A y \in act :
            \/ (m[x].is_cover /\ ~m[y].is_cover)
            \/ /\ m[x].is_cover = m[y].is_cover
               /\ \/ m[x].position < m[y].position
                  \/ (m[x].position = m[y].position /\ x <= y)}}

enrich_tarjeta(id) ==
    LET media_rows == media_rows_for_card(media, id)
    IN [tags |-> cards[id].tags,
        media_count |-> Len(media_rows),
        cover_thumb_url |-> IF media_rows # <<>> THEN {media[media_rows[1]].url}
                                                ELSE ImageUrl(id),
        dias_en_columna |-> dias_en_columna(cards[id], now)]

enrich_batch(ids) ==
    [id \in ids |->
        [tags |-> cards[id].tags,
         media_count |-> Cardinality(ActiveMedia(media, id)),
         cover_thumb_url |-> IF media_cover_map(media, id) # {}
                                THEN media_cover_map(media, id) ELSE ImageUrl(id),
         dias_en_columna |-> dias_en_columna(cards[id], now)]]

\* C27: for every card, _enrich_tarjeta and _enrich_batch return the same
\* tags, media_count, cover_thumb_url and dias_en_columna.
C27_EnrichAgree ==
    \A id \in DOMAIN cards : enrich_tarjeta(id) = enrich_batch(DOMAIN cards)[id]

\* ------------------------------------------------- authentication
\* (services/auth_service.py, routes/auth.py).  creds is {} (no header) or
\* {u}: a valid, unexpired token whose "sub" is user u.
\* get_current_user that trusts the token and does not read the user's row.
get_current_user_from_token(creds, us) ==
    IF creds = {} THEN [code |-> 401, user |-> {}]
    ELSE [code |-> 200, user |-> creds]

\* get_current_user: 401 without credentials or without an active row of
\* the token's user; else the user.
get_current_user(creds, us) ==
    IF creds = {} THEN [code |-> 401, user |-> {}]
    ELSE LET user == {u \in creds \cap DOMAIN us : us[u].is_active}
         IN IF user = {} THEN [code |-> 401, user |-> {}]
                         ELSE [code |-> 200, user |-> user]

\* get_current_user_optional: the active user of the token, else None.
get_current_user_optional(creds, us) ==
    {u \in creds \cap DOMAIN us : us[u].is_active}

\* require_role(*roles): get_current_user, then 403 unless the row's role is
\* one of roles.
require_role(roles, creds, us) ==
    LET auth == get_current_user(creds, us)
    IN IF auth.code # 200 THEN auth
       ELSE IF \E u \in auth.user : us[u].role \notin roles
          THEN [code |-> 403, user |-> {}]
       ELSE auth

\* GET /api/auth/me: the row of the authenticated user.
get_me ==
    /\ UNCHANGED <<columns, cards, nextId, history, notifications, cache, now, sess, env,
                   media, image_url, users>>
    /\ sio' = no_emit
    /\ LET auth == get_current_user(env.token, users)
       IN IF auth.code # 200
             THEN resp' = Response("get_me", auth.code, {})
             ELSE \E u \in auth.user :
                     resp' = [Response("get_me", 200, {u}) EXCEPT !.body = users[u]]

\* POST /api/tarjetas/{id}/comments: the comment carries the id of the
\* authenticated user, or none.  The comment is the body of the response; no
\* handler of the model reads the comments table.
create_comment(tarjeta_id) ==
    /\ UNCHANGED <<columns, cards, nextId, history, notifications, cache, now, sess, env,
                   media, image_url, users>>
    /\ sio' = no_emit
    /\ IF tarjeta_id \notin DOMAIN cards
          THEN resp' = Response("create_comment", 404, {})
          ELSE resp' = [Response("create_comment", 201, {tarjeta_id}) EXCEPT
                           !.body = [user_id |->
                                        get_current_user_optional(env.token, users)]]

\* PUT /api/auth/users/{user_id} by an admin: data.role and data.is_active
\* are sets ({} for None).
update_user(user_id, data) ==
    /\ UNCHANGED <<columns, cards, nextId, history, notifications, cache, now, sess, env,
                   media, image_url>>
    /\ sio' = no_emit
    /\ LET admin == require_role({"admin"}, env.token, users)
       IN IF admin.code # 200
             THEN /\ resp' = Response("update_user", admin.code, {})
                  /\ UNCHANGED users
          ELSE IF user_id \notin DOMAIN users
             THEN /\ resp' = Response("update_user", 404, {})
                  /\ UNCHANGED users
             ELSE /\ users' = [users EXCEPT ![user_id] =
                                  [role |-> IF data.role # {}
                                               THEN CHOOSE r \in data.role : TRUE ELSE @.role,
                                   is_active |-> IF data.is_active # {}
                                                    THEN CHOOSE a \in data.is_active : TRUE
                                                    ELSE @.is_active]]
                  /\ resp' = [Response("update_user", 200, {user_id}) EXCEPT
                                  !.body = users'[user_id]]

\* ------------------------------------------------- SpecUsers: two users,
\* their tokens, and an admin who changes roles and deactivates.
UserUpdates == {[role |-> r, is_active |-> a] :
                   r \in {{}, {"admin"}, {"tecnico"}}, a \in {{}, {TRUE}, {FALSE}}}

NextUsers ==
    \/ \E creds \in {{}, {1}, {2}} : client_credentials(creds)
    \/ \E data \in CreateInputs : nextId <= StampCards /\ create_tarjeta(data)
    \/ get_me
    \/ \E id \in 1..StampCards : create_comment(id)
    \/ \E user_id \in 1..3, data \in UserUpdates : update_user(user_id, data)

SpecUsers == InitList /\ [][NextUsers]_vars

\* C28: every request is authorized against the user's row as it is when the
\* request runs: with the token of a user whose row is inactive, an endpoint
\* of get_current_user (get_me, update_user) answers 401 and an endpoint of
\* get_current_user_optional (create_comment) treats the client as
\* anonymous; with the token of an active user, get_me returns the row's
\* present role and update_user answers 403 exactly when that role is not
\* admin.  (A step that leaves env alone is a request of the client.)
C28_Step ==
    \A u \in env.token :
        LET active == u \in DOMAIN users /\ users[u].is_active
        IN (env' = env) =>
           /\ resp'.op \in {"get_me", "update_user"} => (resp'.code = 401 <=> ~active)
           /\ (resp'.op = "get_me" /\ active) => resp'.body = users[u]
           /\ (resp'.op = "update_user" /\ active)
                 => (resp'.code = 403 <=> users[u].role # "admin")
           /\ (resp'.op = "create_comment" /\ resp'.code = 201)
                 => resp'.body.user_id = (IF active THEN {u} ELSE {})

C28_CurrentRecordAuthorizes == [][C28_Step]_vars

\* User 2 was deactivated by the admin and then called get_me with the token
\* issued before: 401.
C28_Witness ==
    /\ env.token = {2}
    /\ ~users[2].is_active
    /\ resp.op = "get_me"
    /\ resp.code = 401

\* C29: when the update_tarjeta requests in flight have all finished, the
\* tarjeta_actualizada event that was broadcast last carries its card as the
\* database now holds it.
C29_LastEventIsFinal ==
    (/\ \A p \in Procs : sess[p].pc = "idle"
     /\ resp.op = "update_tarjeta"
     /\ sio.events # <<>>)
        => \A k \in 1..Len(sio.events) : \A id \in sio.events[k].ids :
              sio.events[k].data[id] = cards[id]

\* ------------------------------------------------- SpecTtl: core/cache.py
\* called directly, with the clock.
\* get_cached(key, ttl): the value (a set, {} for None) is the body of the
\* response; the ttl argument is not read.
call_get_cached(key, ttl) ==
    /\ cache' = get_cached_store(cache, key, now)
    /\ resp' = [Response("get_cached", 200, {}) EXCEPT
                   !.args = [key |-> key, ttl |-> ttl],
                   !.body = get_cached_value(cache, key, now)]
    /\ UNCHANGED <<columns, cards, nextId, users, media, image_url, history,
                   notifications, now, sess, sio, env>>

call_set_cached(key, value, ttl) ==
    /\ cache' = set_cached(cache, key, value, ttl, now)
    /\ resp' = [Response("set_cached", 200, {}) EXCEPT
                   !.args = [key |-> key, ttl |-> ttl], !.body = {value}]
    /\ UNCHANGED <<columns, cards, nextId, users, media, image_url, history,
                   notifications, now, sess, sio, env>>

NextTtl ==
    \/ \E key \in CacheKeys, ttl \in 0..MaxTime : call_get_cached(key, ttl)
    \/ \E key \in CacheKeys, value \in 1..2, ttl \in 1..MaxTime :
          call_set_cached(key, value, ttl)
    \/ Tick

SpecTtl == InitList /\ [][NextTtl]_vars

\* C30: set_cached fixes the expiry at store time + its ttl; get_cached
\* returns the stored value exactly while the clock is strictly before that
\* expiry, whatever ttl it is given, and otherwise returns None and leaves no
\* entry under the key.  (A step that keeps the clock is a call.)
C30_Step ==
    LET key == resp'.args.key
    IN /\ (now' = now /\ resp'.op = "set_cached")
             => \A e \in cache'[key] : e.expires = now + resp'.args.ttl
       /\ (now' = now /\ resp'.op = "get_cached")
             => /\ resp'.body = {e.value : e \in {x \in cache[key] : now < x.expires}}
                /\ resp'.body = {} => cache'[key] = {}
                /\ resp'.body # {} => cache'[key] = cache[key]

C30_ExpiryFixedAtStore == [][C30_Step]_vars

\* A value stored for 2 seconds is still returned one second before its
\* expiry by a get_cached that was given ttl 0.
C30_Witness ==
    /\ resp.op = "get_cached"
    /\ resp.args.ttl = 0
    /\ now = 1
    /\ resp.body # {}
    /\ \E e \in cache[resp.args.key] : e.expires = now + 1 /\ resp.body = {e.value}

====
